---- MODULE Spec2Model ----
(***************************************************************************)
(* Model of the client-side synchronisation engine of the Smart Task       *)
(* Organizer frontend: the App component (todo_frontend/src/App.js) and    *)
(* the ApiClient (todo_frontend/src/api/client.js).                        *)
(*                                                                         *)
(* One step of the model is one JavaScript task: an event handler, or the  *)
(* continuation of an async function after the request it awaited has      *)
(* settled, run up to its next await, followed by the React commit and     *)
(* the effects whose dependencies changed.  An async function that is      *)
(* suspended on a request is an entry of `ops`; it carries the values its  *)
(* closure captured when the handler was created (cUser, cFilters, cSel).  *)
(***************************************************************************)
EXTENDS Integers, Sequences, FiniteSets, TLC

\* ---------------------------------------------------------------- bounds
MaxOps == 2        \* async operations suspended on a request at one time
MaxEvents == 2     \* user events (clicks, submits) in one run
MaxLoads == 4      \* suspended operations in the runs about selecting tasks
MaxTime == 5000    \* milliseconds the clock runs in the runs about notifications
TickMs == 1000     \* milliseconds the clock advances in one step, at most

\* --------------------------------------------------------------- domains
Null == "null"                 \* user === null
Users == {"alice"}
NoId == 0                      \* selectedTaskId === null (falsy)
TaskIds == {1, 2}
SubIds == {1}
NoMsg == "none"                \* a notification / message that is null
Unset == -1                    \* filters.dueWithinDays === ""

Task(i, c) == [id |-> i, completed |-> c]
NoTask == Task(NoId, FALSE)    \* editingTask === null
Subtask(p, i, c) == [parent |-> p, id |-> i, completed |-> c]

\* Task collections a GET /tasks may answer with: snapshots of a server that
\* holds no task, then task 1 (open), then also task 2 (completed).
TaskLists ==
  { {}, {Task(1, FALSE)}, {Task(1, FALSE), Task(2, TRUE)} }

\* The shapes of a 2xx body of GET /tasks: an array, {items: [...]}, null.
TaskPayloads ==
  { [shape |-> s, items |-> l] : s \in {"array", "items"}, l \in TaskLists }
    \cup { [shape |-> "null", items |-> {}] }

NoPayload == [shape |-> "null", items |-> {}]

\* Subtask collections GET /tasks/p/subtasks may answer with.
SubtaskLists(p) ==
  { l \in SUBSET { Subtask(p, i, c) : i \in SubIds, c \in BOOLEAN } :
      \A a, b \in l : a.id = b.id => a = b }
SubtaskPayloads(p) ==
  { [shape |-> s, items |-> l] : s \in {"array", "items"}, l \in SubtaskLists(p) }

\* Bodies of a 2xx GET /auth/me: {user: u}, u itself, or null.
MePayloads ==
  { [shape |-> s, user |-> u] : s \in {"wrapped", "bare"}, u \in Users }
    \cup { [shape |-> "null", user |-> Null] }

\* ------------------------------------------------------------- ApiClient
\* What fetch() and the body parser deliver for one request.
\*   net     FALSE: fetch rejected (transport failure)
\*   parsed  FALSE: resp.json() / resp.text() threw
\*   message, error: data.message and data.error of the parsed body
Resp(n, s, p, m, e) ==
  [net |-> n, status |-> s, parsed |-> p, message |-> m, error |-> e]
OkResp == Resp(TRUE, 200, TRUE, NoMsg, NoMsg)
FailResponses ==
  { Resp(FALSE, 0, FALSE, NoMsg, NoMsg),
    Resp(TRUE, 404, TRUE, "Not found", NoMsg),
    Resp(TRUE, 500, FALSE, NoMsg, NoMsg) }
Responses == {OkResp} \cup FailResponses
\* What the two session requests may also get: 401, and a 2xx whose body does
\* not parse.
Unauthorized == Resp(TRUE, 401, TRUE, "Unauthorized", NoMsg)
UnparsedOk == Resp(TRUE, 200, FALSE, NoMsg, NoMsg)
SessionFailures == FailResponses \cup {Unauthorized, UnparsedOk}

RespOk(r) == r.status >= 200 /\ r.status <= 299

StatusMessage(s) == "Request failed with status " \o ToString(s)

\* An error value: api = (e instanceof ApiError); data = e.data?.message.
Err(a, s, m, d) == [api |-> a, status |-> s, message |-> m, data |-> d]
NoErr == Err(FALSE, 0, NoMsg, NoMsg)
ApiError(m, s, d) == Err(TRUE, s, m, d)
FetchError == Err(FALSE, 0, "Failed to fetch", NoMsg)
FindTypeError == Err(FALSE, 0, "Cannot read properties of null", NoMsg)

\* Variant: a 2xx response whose body does not parse resolves (with no data).
RequestLenient(r) ==
  IF ~r.net THEN [ok |-> FALSE, err |-> FetchError]
  ELSE IF ~RespOk(r)
    THEN [ok |-> FALSE,
          err |-> ApiError(IF r.parsed /\ r.message # NoMsg THEN r.message
                           ELSE IF r.parsed /\ r.error # NoMsg THEN r.error
                           ELSE StatusMessage(r.status),
                           r.status, IF r.parsed THEN r.message ELSE NoMsg)]
  ELSE [ok |-> TRUE, err |-> NoErr]

\* ApiClient._request: the outcome of awaiting one request.
Request(r) ==
  IF ~r.net THEN [ok |-> FALSE, err |-> FetchError]
  ELSE IF ~r.parsed
    THEN IF ~RespOk(r)
           THEN [ok |-> FALSE, err |-> ApiError(StatusMessage(r.status), r.status, NoMsg)]
           ELSE [ok |-> FALSE,
                 err |-> ApiError("Failed to parse server response", r.status, NoMsg)]
  ELSE IF ~RespOk(r)
    THEN [ok |-> FALSE,
          err |-> ApiError(IF r.message # NoMsg THEN r.message
                           ELSE IF r.error # NoMsg THEN r.error
                           ELSE StatusMessage(r.status),
                           r.status, r.message)]
  ELSE [ok |-> TRUE, err |-> NoErr]

\* A request as it leaves the client.  anon records whether the session was
\* absent (user === null in the committed state) when it was issued.
Req(m, p, i, s, c, q, a) ==
  [method |-> m, path |-> p, id |-> i, sub |-> s, completed |-> c,
   query |-> q, anon |-> a]

\* toQueryString: one (key, String(value)) pair per emitted parameter.
Undefined == <<>>
Defined(v) == <<v>>
toQueryString(params) ==
  (IF params.search = Undefined \/ params.search = Defined("") THEN {}
     ELSE {<<"search", params.search[1]>>})
  \cup (IF params.sort = Undefined \/ params.sort = Defined("") THEN {}
     ELSE {<<"sort", params.sort[1]>>})
  \cup (IF params.priority = Undefined THEN {}
     ELSE {<<"priority", v>> : v \in params.priority[1]})
  \cup (IF params.due_within_days = Undefined THEN {}
     ELSE {<<"due_within_days", ToString(params.due_within_days[1])>>})

\* Variant: the day count goes through || like the other fields.
TaskParamsDropZero(f) ==
  [search |-> IF f.search # "" THEN Defined(f.search) ELSE Undefined,
   sort |-> IF f.sort # "" THEN Defined(f.sort) ELSE Undefined,
   priority |-> IF Cardinality(f.priorities) # 0 THEN Defined(f.priorities) ELSE Undefined,
   due_within_days |-> IF f.dueWithinDays = Unset \/ f.dueWithinDays = 0 THEN Undefined
                       ELSE Defined(f.dueWithinDays)]

\* The params object loadTasks builds from the filter state.
TaskParams(f) ==
  [search |-> IF f.search # "" THEN Defined(f.search) ELSE Undefined,
   sort |-> IF f.sort # "" THEN Defined(f.sort) ELSE Undefined,
   priority |-> IF Cardinality(f.priorities) # 0 THEN Defined(f.priorities) ELSE Undefined,
   due_within_days |-> IF f.dueWithinDays = Unset THEN Undefined
                       ELSE Defined(f.dueWithinDays)]

getTasks(f, anon) == Req("GET", "/tasks", NoId, NoId, FALSE, toQueryString(TaskParams(f)), anon)
listSubtasks(t, anon) == Req("GET", "/tasks/:id/subtasks", t, NoId, FALSE, {}, anon)
createTask(anon) == Req("POST", "/tasks", NoId, NoId, FALSE, {}, anon)
updateTask(t, c, anon) == Req("PATCH", "/tasks/:id", t, NoId, c, {}, anon)
apiDeleteTask(t, anon) == Req("DELETE", "/tasks/:id", t, NoId, FALSE, {}, anon)
postTaskComplete(t, c, anon) == Req("POST", "/tasks/:id/complete", t, NoId, c, {}, anon)
createSubtask(t, anon) == Req("POST", "/tasks/:id/subtasks", t, NoId, FALSE, {}, anon)
apiUpdateSubtask(t, s, c, anon) == Req("PATCH", "/tasks/:id/subtasks/:sub", t, s, c, {}, anon)
apiDeleteSubtask(t, s, anon) == Req("DELETE", "/tasks/:id/subtasks/:sub", t, s, FALSE, {}, anon)
postSubtaskComplete(t, s, c, anon) ==
  Req("POST", "/tasks/:id/subtasks/:sub/complete", t, s, c, {}, anon)
login(anon) == Req("POST", "/auth/login", NoId, NoId, FALSE, {}, anon)
logout(anon) == Req("POST", "/auth/logout", NoId, NoId, FALSE, {}, anon)
currentUser(anon) == Req("GET", "/auth/me", NoId, NoId, FALSE, {}, anon)

\* Variant: the catch clause falls back on every ApiError, whatever its status.
FallsBackOnAnyApiError(e) == e.api

\* markTaskComplete / markSubtaskComplete: the catch clause after the
\* dedicated POST failed with error e.  TRUE: issue the fallback PATCH.
MarkCompleteFallsBack(e) == e.api /\ e.status = 404

\* ----------------------------------------------------------------- state
VARIABLES
  user,            \* useState(null)
  loadingUser,     \* useState(true)
  authError,       \* useState(null)
  tasks,           \* useState([])
  subtasks,        \* useState([])
  loading,         \* useState(false)
  flash,           \* useState(null)
  error,           \* useState(null)
  selectedTaskId,  \* useState(null)
  showTaskForm,    \* useState(false)
  editingTask,     \* useState(null)
  filters,         \* useState({search: "", sort: "", priorities: [], dueWithinDays: ""})
  ops,             \* async functions suspended on a request
  last,            \* what the last step did
  events,          \* user events so far
  now,             \* the clock, in milliseconds
  timers,          \* the setTimeout callbacks that are pending
  raised,          \* when the notification of each kind was last raised
  wire             \* the last response fetch delivered, and what _request made of it

vars == <<user, loadingUser, authError, tasks, subtasks, loading, flash, error,
          selectedTaskId, showTaskForm, editingTask, filters, ops, last, events,
          now, timers, raised, wire>>

DefaultFilters == [search |-> "", sort |-> "", priorities |-> {}, dueWithinDays |-> Unset]

\* An async function suspended at the await named pc.  cUser, cFilters and
\* cSel are user, filters and selectedTaskId of the render that created the
\* function; id, sub and completed are the arguments it sends.
\* Bookkeeping of what the function did: reqs, the requests it has issued so
\* far, in order; wrote, its write request (the fallback PATCH included)
\* resolved; flashed, it called showFlash.
Op(k, p, u, f, sel, i, sb, c, rq) ==
  [kind |-> k, pc |-> p, cUser |-> u, cFilters |-> f, cSel |-> sel,
   id |-> i, sub |-> sb, completed |-> c, reqs |-> rq,
   wrote |-> FALSE, flashed |-> FALSE]
Idle == Op("idle", "", Null, DefaultFilters, NoId, NoId, NoId, FALSE, <<>>)

Slots == DOMAIN ops
Pool(n) == [i \in 1..n |-> Idle]
Free(o) == {i \in DOMAIN o : o[i] = Idle}
Spawn(o, rec) ==
  LET i == CHOOSE j \in Free(o) : \A k \in Free(o) : j <= k
  IN [o EXCEPT ![i] = rec]

\* What the last step did.  op: the async function that ran in it, as the step
\* left it (Idle: none ran, the step was a user event or a timer); at: the
\* await it resumed from; done: it ran to its end; err: the error the awaited
\* request rejected with, or that was thrown in the step (NoErr: none);
\* loaded: the collection a response replaced ("none", "tasks", "subtasks").
\* me: the body of the GET /auth/me that resolved in the step; list: the body
\* of the GET /tasks or GET /tasks/:id/subtasks that resolved in it.
NoMe == [shape |-> "null", user |-> Null]
Step(op, at, done, e, loaded) ==
  [op |-> op, at |-> at, done |-> done, err |-> e, loaded |-> loaded, me |-> NoMe,
   list |-> NoPayload]
StepList(op, at, done, e, loaded, payload) ==
  [Step(op, at, done, e, loaded) EXCEPT !.list = IF loaded = "none" THEN NoPayload ELSE payload]
StepMe(op, at, done, e, me) == [Step(op, at, done, e, "none") EXCEPT !.me = me]
NoStep == Step(Idle, "", FALSE, NoErr, "none")

\* useMemo: the selected task is looked up in the task collection.
selectedTask ==
  IF \E t \in tasks : t.id = selectedTaskId
    THEN CHOOSE t \in tasks : t.id = selectedTaskId
    ELSE NoTask

\* What the render shows, hence which handlers a user can reach.
AppShown == ~loadingUser /\ user # Null
LoginShown == ~loadingUser /\ user = Null
FormShown == AppShown /\ showTaskForm
DetailShown == AppShown /\ ~showTaskForm /\ selectedTask # NoTask

\* Variant: showError ignores what the error says.
ShowFixedMessage(e) == IF e.api THEN "Request failed" ELSE "Something went wrong"

\* showError: the message put in the error notification for error e.
ShowErrorMessage(e) ==
  IF e.api
    THEN IF e.data # NoMsg THEN e.data
         ELSE IF e.message # NoMsg THEN e.message ELSE "Request failed"
    ELSE IF e.message # NoMsg THEN e.message ELSE "Something went wrong"

\* A variant that takes arrays only: Array.isArray(list) ? list : []
NormalizeArrayOnly(payload) == IF payload.shape = "array" THEN payload.items ELSE {}

\* Array.isArray(list) ? list : list?.items || []
Normalize(payload) == IF payload.shape = "null" THEN {} ELSE payload.items

\* !list.find?.((t) => t.id === id): TRUE when the selection is to be cleared.
\* find exists on arrays only; on {items: [...]} the optional call is undefined.
NotFound(payload, i) ==
  IF payload.shape = "array" THEN ~(\E t \in payload.items : t.id = i) ELSE TRUE

\* The effects of the commit that follows a step.  u, f, sel are the new
\* user, filters and selectedTaskId; touched: setFilters was called (a new
\* object, whatever its content).
\*   useEffect [user, loadTasks]: loadTasks is a new function when user,
\*     filters or selectedTaskId changed; runs loadTasks() if user.
\*   useEffect [selectedTaskId, loadSubtasks]: runs loadSubtasks() if
\*     selectedTaskId.
\* Variants: loadTasks without filters, or without selectedTaskId, among the
\* dependencies of its useCallback.
RunsTaskEffectIgnoresFilters(u, touched, sel) ==
  u # Null /\ (u # user \/ sel # selectedTaskId)
RunsTaskEffectIgnoresSelection(u, touched, sel) == u # Null /\ (touched \/ u # user)

RunsTaskEffect(u, touched, sel) ==
  u # Null /\ (touched \/ u # user \/ sel # selectedTaskId)
RunsSubtaskEffect(sel) == sel # selectedTaskId /\ sel # NoId

\* Variant: loadTasks leaves the error notification alone.
LoadTasksKeepsError(err) == err

\* setError(null) at the start of loadTasks; err is the notification before.
LoadTasksError(err) == NoMsg

LoadTasksOp(u, f, sel) ==
  Op("loadTasks", "getTasks", u, f, sel, NoId, NoId, FALSE, <<getTasks(f, u = Null)>>)
LoadSubtasksOp(u, f, sel) ==
  Op("loadSubtasks", "listSubtasks", u, f, sel, sel, NoId, FALSE,
     <<listSubtasks(sel, u = Null)>>)

\* Commit: o, err and ld are ops, error and loading as the handler left them.
Commit(u, f, touched, sel, o, err, ld) ==
  LET runA == RunsTaskEffect(u, touched, sel)
      runB == RunsSubtaskEffect(sel)
      need == (IF runA THEN 1 ELSE 0) + (IF runB THEN 1 ELSE 0)
      o1 == IF runA THEN Spawn(o, LoadTasksOp(u, f, sel)) ELSE o
      o2 == IF runB THEN Spawn(o1, LoadSubtasksOp(u, f, sel)) ELSE o1
  IN /\ Cardinality(Free(o)) >= need
     /\ user' = u
     /\ filters' = f
     /\ selectedTaskId' = sel
     /\ ops' = o2
     /\ error' = IF runA THEN LoadTasksError(err) ELSE err
     /\ loading' = IF runA THEN TRUE ELSE ld
     /\ UNCHANGED <<now, timers, raised, wire>>

\* A step that leaves user, filters and selectedTaskId alone runs no effect.
NoEffect(o, err, ld) == Commit(user, filters, FALSE, selectedTaskId, o, err, ld)

\* The component right after it mounted: the startup effect has issued
\* GET /auth/me and is suspended on it.
InitMount ==
  /\ user = Null
  /\ loadingUser = TRUE
  /\ authError = NoMsg
  /\ tasks = {}
  /\ subtasks = {}
  /\ loading = FALSE
  /\ flash = NoMsg
  /\ error = NoMsg
  /\ selectedTaskId = NoId
  /\ showTaskForm = FALSE
  /\ editingTask = NoTask
  /\ filters = DefaultFilters
  /\ ops = Spawn(Pool(MaxOps),
                 Op("probe", "me", Null, DefaultFilters, NoId, NoId, NoId, FALSE,
                    <<currentUser(TRUE)>>))
  /\ last = NoStep
  /\ events = 0
  /\ now = 0
  /\ timers = {}
  /\ raised = [error |-> 0, flash |-> 0]
  /\ wire = <<>>

\* The component at rest in a session: alice is signed in, both tasks are
\* loaded, task sel (or none) is selected and subs, its subtasks, are loaded;
\* no request is pending, no notification is shown, n operations may be
\* suspended at a time.
AtRestIn(f, sel, subs, n, editing) ==
  /\ user = "alice"
  /\ loadingUser = FALSE
  /\ authError = NoMsg
  /\ tasks = {Task(1, FALSE), Task(2, TRUE)}
  /\ subtasks = subs
  /\ loading = FALSE
  /\ flash = NoMsg
  /\ error = NoMsg
  /\ selectedTaskId = sel
  /\ showTaskForm = (editing # NoTask)
  /\ editingTask = editing
  /\ filters = f
  /\ ops = Pool(n)
  /\ last = NoStep
  /\ events = 0
  /\ now = 0
  /\ timers = {}
  /\ raised = [error |-> 0, flash |-> 0]
  /\ wire = <<>>

AtRestWith(f, sel, subs, n) == AtRestIn(f, sel, subs, n, NoTask)
AtRest(sel, subs, n) == AtRestWith(DefaultFilters, sel, subs, n)

\* Task 1 is selected and its subtask is loaded.  (Reached from InitMount by
\* the probe resolving, the task load resolving, a click on task 1 and the two
\* loads it causes resolving.)
InitSession == AtRest(1, {Subtask(1, 1, FALSE)}, MaxOps)

Init == InitMount \/ InitSession

\* Nothing is selected yet.  (Reached from InitMount by the probe resolving
\* and the task load resolving.)
InitSelect == AtRest(NoId, {}, MaxLoads)

\* As InitSession, with room for the loads a further selection causes.
InitDelete == AtRest(1, {Subtask(1, 1, FALSE)}, MaxLoads)

\* As InitDelete, after a click on Edit: the form is open on task 1.
InitForm == AtRestIn(DefaultFilters, 1, {Subtask(1, 1, FALSE)}, MaxLoads, Task(1, FALSE))

\* ------------------------------------------------------------- session
\* me && me.user ? me.user : me ? me : null
MeUser(me) == IF me.shape = "null" THEN Null ELSE me.user

\* Variant: the catch clause of the startup effect reports the error.
ProbeCatchShows(e, err) == ShowErrorMessage(e)

\* catch { setUser(null) }: the error notification after the catch clause of
\* the startup effect ran for error e, err being the notification before.
ProbeCatch(e, err) == err

\* The startup effect, resumed when GET /auth/me settles.
ProbeSettle(s, r, me) ==
  /\ ops[s].kind = "probe" /\ ops[s].pc = "me"
  /\ LET res == Request(r)
         u == IF res.ok THEN MeUser(me) ELSE Null
     IN /\ Commit(u, filters, FALSE, selectedTaskId,
                  [ops EXCEPT ![s] = Idle],
                  IF res.ok THEN error ELSE ProbeCatch(res.err, error), loading)
        /\ last' = StepMe(ops[s], "me", TRUE, res.err, me)
  /\ loadingUser' = FALSE
  /\ UNCHANGED <<authError, tasks, subtasks, flash, showTaskForm, editingTask, events>>

\* Variant: every failure is reported as invalid credentials.
LoginAlwaysInvalid(e) == "Invalid credentials"

\* The message handleLogin reports for error e.
LoginErrorMessage(e) ==
  IF e.api /\ e.status = 401 THEN "Invalid credentials"
  ELSE IF e.message # NoMsg THEN e.message ELSE "Login failed"

handleLogin ==
  /\ LoginShown
  /\ events < MaxEvents
  /\ Free(ops) # {}
  /\ authError' = NoMsg
  /\ NoEffect(Spawn(ops, Op("handleLogin", "login", user, filters, selectedTaskId,
                            NoId, NoId, FALSE, <<login(user = Null)>>)),
              error, loading)
  /\ last' = NoStep
  /\ events' = events + 1
  /\ UNCHANGED <<loadingUser, tasks, subtasks, flash, showTaskForm, editingTask>>

\* Variant: the probe is issued whether the login resolved or not.
LoginProceedsAlways(res) == TRUE

\* await api.login(...): the statements after it run only when it resolved.
LoginProceeds(res) == res.ok

\* handleLogin resumed when POST /auth/login settles.
LoginSettle(s, r) ==
  /\ ops[s].kind = "handleLogin" /\ ops[s].pc = "login"
  /\ LET res == Request(r)
         op == ops[s]
         op1 == [op EXCEPT !.pc = "me", !.reqs = Append(@, currentUser(user = Null))]
     IN IF LoginProceeds(res)
          THEN /\ NoEffect([ops EXCEPT ![s] = op1], error, loading)
               /\ last' = Step(op1, "login", FALSE, res.err, "none")
               /\ UNCHANGED authError
          ELSE /\ NoEffect([ops EXCEPT ![s] = Idle], error, loading)
               /\ last' = Step(op, "login", TRUE, res.err, "none")
               /\ authError' = LoginErrorMessage(res.err)
  /\ UNCHANGED <<loadingUser, tasks, subtasks, flash, showTaskForm, editingTask, events>>

\* handleLogin resumed when its GET /auth/me settles.
LoginMeSettle(s, r, me) ==
  /\ ops[s].kind = "handleLogin" /\ ops[s].pc = "me"
  /\ LET res == Request(r)
         op == ops[s]
     IN IF res.ok
          THEN /\ Commit(MeUser(me), filters, FALSE, selectedTaskId,
                         [ops EXCEPT ![s] = Idle], error, loading)
               /\ last' = StepMe([op EXCEPT !.flashed = TRUE], "me", TRUE, NoErr, me)
               /\ flash' = "Welcome back!"
               /\ UNCHANGED authError
          ELSE /\ NoEffect([ops EXCEPT ![s] = Idle], error, loading)
               /\ last' = Step(op, "me", TRUE, res.err, "none")
               /\ authError' = LoginErrorMessage(res.err)
               /\ UNCHANGED flash
  /\ UNCHANGED <<loadingUser, tasks, subtasks, showTaskForm, editingTask, events>>

handleLogout ==
  /\ AppShown
  /\ events < MaxEvents
  /\ Free(ops) # {}
  /\ NoEffect(Spawn(ops, Op("handleLogout", "logout", user, filters, selectedTaskId,
                            NoId, NoId, FALSE, <<logout(user = Null)>>)),
              error, loading)
  /\ last' = NoStep
  /\ events' = events + 1
  /\ UNCHANGED <<loadingUser, authError, tasks, subtasks, flash, showTaskForm,
                 editingTask>>

\* Variant: the finally clause forgets setTasks([]) and setSubtasks([]).
LogoutKeepsCollections ==
  [user |-> Null, tasks |-> tasks, selectedTaskId |-> NoId, subtasks |-> subtasks,
   showTaskForm |-> FALSE, editingTask |-> NoTask]

\* What the finally clause of handleLogout sets.
LogoutReset ==
  [user |-> Null, tasks |-> {}, selectedTaskId |-> NoId, subtasks |-> {},
   showTaskForm |-> FALSE, editingTask |-> NoTask]

\* handleLogout resumed when POST /auth/logout settles, either way.
LogoutSettle(s, r) ==
  /\ ops[s].kind = "handleLogout" /\ ops[s].pc = "logout"
  /\ LET res == Request(r)
         z == LogoutReset
     IN /\ Commit(z.user, filters, FALSE, z.selectedTaskId,
                  [ops EXCEPT ![s] = Idle], error, loading)
        /\ tasks' = z.tasks
        /\ subtasks' = z.subtasks
        /\ showTaskForm' = z.showTaskForm
        /\ editingTask' = z.editingTask
        /\ last' = Step(ops[s], "logout", TRUE, res.err, "none")
  /\ UNCHANGED <<loadingUser, authError, flash, events>>

\* ------------------------------------------------------- view and filters
Opt(v) == <<v>>
Absent == <<>>
Patch(se, so, pr, du) == [search |-> se, sort |-> so, priorities |-> pr, dueWithinDays |-> du]

\* {...f, ...patch}
Merge(f, patch) ==
  [search |-> IF patch.search = Absent THEN f.search ELSE patch.search[1],
   sort |-> IF patch.sort = Absent THEN f.sort ELSE patch.sort[1],
   priorities |-> IF patch.priorities = Absent THEN f.priorities ELSE patch.priorities[1],
   dueWithinDays |-> IF patch.dueWithinDays = Absent THEN f.dueWithinDays
                     ELSE patch.dueWithinDays[1]]

\* TaskFilters: the patches its controls send to onChange.
SearchTexts == {"", "milk"}
SortKeys == {""}
PriorityChips == {}
DueInputs == {Unset}
togglePriority(f, p) ==
  Patch(Absent, Absent,
        Opt(IF p \in f.priorities THEN f.priorities \ {p} ELSE f.priorities \cup {p}),
        Absent)
handleDueDays(v) ==
  Patch(Absent, Absent, Absent, Opt(IF v = Unset THEN Unset ELSE IF v > 0 THEN v ELSE 0))
FilterPatches(f) ==
  { Patch(Opt(v), Absent, Absent, Absent) : v \in SearchTexts }
    \cup { Patch(Absent, Opt(v), Absent, Absent) : v \in SortKeys }
    \cup { togglePriority(f, p) : p \in PriorityChips }
    \cup { handleDueDays(v) : v \in DueInputs }

\* A user event: counted; no async function resumes in it.  at: what the
\* confirmation dialog of the event returned ("accepted", "declined"), the
\* name of the handler for the events of the form ("startEditTask",
\* "cancelForm"), "" for the other events.
Did(at) ==
  /\ events < MaxEvents
  /\ events' = events + 1
  /\ last' = Step(Idle, at, FALSE, NoErr, "none")
Event == Did("")

updateFilters(patch) ==
  /\ AppShown
  /\ Event
  /\ Commit(user, Merge(filters, patch), TRUE, selectedTaskId, ops, error, loading)
  /\ UNCHANGED <<loadingUser, authError, tasks, subtasks, flash, showTaskForm,
                 editingTask>>

\* The refresh button: onRefresh={loadTasks}, the callback of the current render.
onRefresh ==
  /\ AppShown
  /\ Event
  /\ Free(ops) # {}
  /\ NoEffect(Spawn(ops, LoadTasksOp(user, filters, selectedTaskId)),
              LoadTasksError(error), TRUE)
  /\ UNCHANGED <<loadingUser, authError, tasks, subtasks, flash, showTaskForm,
                 editingTask>>

\* TaskList: onSelect={(t) => setSelectedTaskId(t.id)}
onSelect(t) ==
  /\ AppShown
  /\ t \in tasks
  /\ Event
  /\ Commit(user, filters, FALSE, t.id, ops, error, loading)
  /\ UNCHANGED <<loadingUser, authError, tasks, subtasks, flash, showTaskForm,
                 editingTask>>

startCreateTask ==
  /\ AppShown
  /\ Event
  /\ editingTask' = NoTask
  /\ showTaskForm' = TRUE
  /\ NoEffect(ops, error, loading)
  /\ UNCHANGED <<loadingUser, authError, tasks, subtasks, flash>>

startEditTask ==
  /\ DetailShown
  /\ Did("startEditTask")
  /\ editingTask' = selectedTask
  /\ showTaskForm' = TRUE
  /\ NoEffect(ops, error, loading)
  /\ UNCHANGED <<loadingUser, authError, tasks, subtasks, flash>>

\* Variant: cancelling only closes the form.
CancelKeepsEditing ==
  /\ FormShown
  /\ Did("cancelForm")
  /\ editingTask' = editingTask
  /\ showTaskForm' = FALSE
  /\ NoEffect(ops, error, loading)
  /\ UNCHANGED <<loadingUser, authError, tasks, subtasks, flash>>

cancelForm ==
  /\ FormShown
  /\ Did("cancelForm")
  /\ editingTask' = NoTask
  /\ showTaskForm' = FALSE
  /\ NoEffect(ops, error, loading)
  /\ UNCHANGED <<loadingUser, authError, tasks, subtasks, flash>>

\* ------------------------------------------------------------- mutations
TaskMutations == {"saveTask", "deleteTask", "toggleTaskComplete"}
SubtaskMutations == {"addSubtask", "updateSubtask", "deleteSubtask", "toggleSubtaskComplete"}
Mutations == TaskMutations \cup SubtaskMutations
ToggleKinds == {"toggleTaskComplete", "toggleSubtaskComplete"}

\* Variant: the handler goes on whatever window.confirm returned.
ConfirmsAlways(answer) == TRUE

\* if (!window.confirm(...)) return;   TRUE: the handler goes on.
Confirms(answer) == answer
Answer(confirmed) == IF confirmed THEN "accepted" ELSE "declined"

\* A handler that issues its write request and suspends on it.
StartAfter(at, k, i, sb, c, rq) ==
  /\ Did(at)
  /\ Free(ops) # {}
  /\ NoEffect(Spawn(ops, Op(k, "write", user, filters, selectedTaskId, i, sb, c, <<rq>>)),
              error, loading)
  /\ UNCHANGED <<loadingUser, authError, tasks, subtasks, flash, showTaskForm,
                 editingTask>>

\* The handler returns at once.
Return(at) ==
  /\ Did(at)
  /\ NoEffect(ops, error, loading)
  /\ UNCHANGED <<loadingUser, authError, tasks, subtasks, flash, showTaskForm,
                 editingTask>>

StartMutation(k, i, sb, c, rq) == StartAfter("", k, i, sb, c, rq)

\* Variant: the update goes to the selected task.
SaveTargetSelected == selectedTaskId

\* The id saveTask updates: editingTask.id.
SaveTarget == editingTask.id

saveTask ==
  /\ FormShown
  /\ StartMutation("saveTask", editingTask.id, NoId, FALSE,
                   IF editingTask # NoTask
                     THEN updateTask(SaveTarget, FALSE, user = Null)
                     ELSE createTask(user = Null))

\* confirmed: what window.confirm returned.
deleteTask(confirmed) ==
  /\ DetailShown
  /\ IF Confirms(confirmed)
       THEN StartAfter(Answer(confirmed), "deleteTask", selectedTask.id, NoId, FALSE,
                       apiDeleteTask(selectedTask.id, user = Null))
       ELSE Return(Answer(confirmed))

\* From the list (any task) or from the detail panel (the selected task).
toggleTaskComplete(task) ==
  /\ AppShown
  /\ task \in tasks
  /\ StartMutation("toggleTaskComplete", task.id, NoId, ~task.completed,
                   postTaskComplete(task.id, ~task.completed, user = Null))

addSubtask ==
  /\ DetailShown
  /\ StartMutation("addSubtask", selectedTask.id, NoId, FALSE,
                   createSubtask(selectedTask.id, user = Null))

updateSubtask(subtask) ==
  /\ DetailShown
  /\ subtask \in subtasks
  /\ StartMutation("updateSubtask", selectedTask.id, subtask.id, FALSE,
                   apiUpdateSubtask(selectedTask.id, subtask.id, FALSE, user = Null))

deleteSubtask(subtask, confirmed) ==
  /\ DetailShown
  /\ subtask \in subtasks
  /\ IF Confirms(confirmed)
       THEN StartAfter(Answer(confirmed), "deleteSubtask", selectedTask.id, subtask.id, FALSE,
                       apiDeleteSubtask(selectedTask.id, subtask.id, user = Null))
       ELSE Return(Answer(confirmed))

toggleSubtaskComplete(subtask) ==
  /\ DetailShown
  /\ subtask \in subtasks
  /\ StartMutation("toggleSubtaskComplete", selectedTask.id, subtask.id, ~subtask.completed,
                   postSubtaskComplete(selectedTask.id, subtask.id, ~subtask.completed,
                                       user = Null))

\* --------------------------------------------- mutations: continuations
\* Variant: the reload sits in a finally clause and runs after a rejection too.
ProceedsAlways(res) == TRUE

\* try { await api.write(...); <reload> } catch (e) { showError(e) }
\* The statements after the await run only when the awaited request resolved.
Proceeds(res) == res.ok

\* The catch clause of a mutation handler: showError(e), and the handler ends.
Fail(s, e) ==
  /\ NoEffect([ops EXCEPT ![s] = Idle], ShowErrorMessage(e), loading)
  /\ last' = Step(ops[s], ops[s].pc, TRUE, e, "none")
  /\ UNCHANGED <<loadingUser, authError, tasks, subtasks, flash, showTaskForm,
                 editingTask, events>>

\* The flash a task mutation raises right after its write resolved.
WriteFlash(op) ==
  CASE op.kind = "saveTask" -> IF op.id # NoId THEN "Task updated" ELSE "Task created"
    [] op.kind = "deleteTask" -> "Task deleted"
    [] OTHER -> NoMsg

\* Variant: saveTask leaves the form as it is.
SaveClosesNever(op) == FALSE

\* saveTask after its write: setShowTaskForm(false); setEditingTask(null).
SaveCloses(op) == op.kind = "saveTask"

\* saveTask, deleteTask, toggleTaskComplete after the await of the write, up
\* to the await of loadTasks().  loadTasks tests the user of its closure, which
\* is set in every render that shows the handlers.
AfterTaskWrite(s, res) ==
  LET op == ops[s]
      fl == WriteFlash(op)
      sel == IF op.kind = "deleteTask" THEN NoId ELSE selectedTaskId
      op1 == [op EXCEPT !.pc = "getTasks", !.wrote = res.ok, !.flashed = (fl # NoMsg),
                        !.reqs = Append(@, getTasks(op.cFilters, user = Null))]
  IN /\ op.cUser # Null
     /\ flash' = IF fl # NoMsg THEN fl ELSE flash
     /\ showTaskForm' = IF SaveCloses(op) THEN FALSE ELSE showTaskForm
     /\ editingTask' = IF SaveCloses(op) THEN NoTask ELSE editingTask
     /\ Commit(user, filters, FALSE, sel, [ops EXCEPT ![s] = op1],
               LoadTasksError(error), TRUE)
     /\ last' = Step(op1, op.pc, FALSE, res.err, "none")
     /\ UNCHANGED <<loadingUser, authError, tasks, subtasks, events>>

\* addSubtask .. toggleSubtaskComplete after the await of the write, up to the
\* await of loadSubtasks().  loadSubtasks tests the selectedTaskId of its
\* closure, which is set in every render that shows the subtask handlers.
AfterSubtaskWrite(s, res) ==
  LET op == ops[s]
      op1 == [op EXCEPT !.pc = "listSubtasks", !.wrote = res.ok,
                        !.reqs = Append(@, listSubtasks(op.cSel, user = Null))]
  IN /\ op.cSel # NoId
     /\ NoEffect([ops EXCEPT ![s] = op1], error, loading)
     /\ last' = Step(op1, op.pc, FALSE, res.err, "none")
     /\ UNCHANGED <<loadingUser, authError, tasks, subtasks, flash, showTaskForm,
                    editingTask, events>>

AfterWrite(s, res) ==
  IF ops[s].kind \in TaskMutations THEN AfterTaskWrite(s, res) ELSE AfterSubtaskWrite(s, res)

\* Variant: the 404 is reported before the fallback is tried.
AbsorbReports(e, err) == ShowErrorMessage(e)

\* catch (err) of markTaskComplete / markSubtaskComplete with a 404: the error
\* is not rethrown and reaches no showError; err is the notification before.
Absorb(e, err) == err

\* The fallback request of markTaskComplete / markSubtaskComplete.
FallbackRequest(op, anon) ==
  IF op.kind = "toggleTaskComplete"
    THEN updateTask(op.id, op.completed, anon)
    ELSE apiUpdateSubtask(op.id, op.sub, op.completed, anon)

\* A mutation resumed when its first request settles.
WriteSettle(s, r) ==
  /\ ops[s].kind \in Mutations /\ ops[s].pc = "write"
  /\ LET res == Request(r)
         op == ops[s]
         op1 == [op EXCEPT !.pc = "fallback",
                           !.reqs = Append(@, FallbackRequest(op, user = Null))]
     IN IF ~res.ok /\ op.kind \in ToggleKinds /\ MarkCompleteFallsBack(res.err)
          THEN /\ NoEffect([ops EXCEPT ![s] = op1], Absorb(res.err, error), loading)
               /\ last' = Step(op1, "write", FALSE, res.err, "none")
               /\ UNCHANGED <<loadingUser, authError, tasks, subtasks, flash,
                              showTaskForm, editingTask, events>>
          ELSE IF Proceeds(res) THEN AfterWrite(s, res) ELSE Fail(s, res.err)

\* A toggle resumed when its fallback PATCH settles.
FallbackSettle(s, r) ==
  /\ ops[s].kind \in ToggleKinds /\ ops[s].pc = "fallback"
  /\ LET res == Request(r)
     IN IF Proceeds(res) THEN AfterWrite(s, res) ELSE Fail(s, res.err)

\* What the user may type in the day count: nothing, or a number.
DueTyped == {Unset, -2, 0, 3}

\* Variant: deleteTask ends at the await of loadTasks().
AfterReloadKeeps(op, subs) == subs

\* The statements of a task mutation after await loadTasks(): deleteTask
\* calls setSubtasks([]).  subs is the subtask collection before.
AfterReload(op, subs) == IF op.kind = "deleteTask" THEN {} ELSE subs

\* loadTasks resumed when GET /tasks settles, then the rest of the handler
\* that awaited it.
GetTasksSettle(s, r, payload) ==
  /\ ops[s].kind \in {"loadTasks"} \cup TaskMutations /\ ops[s].pc = "getTasks"
  /\ LET res == Request(r)
         op == ops[s]
         throws == res.ok /\ op.cSel # NoId /\ payload.shape = "null"
         clears == res.ok /\ op.cSel # NoId /\ ~throws /\ NotFound(payload, op.cSel)
         sel == IF clears THEN NoId ELSE selectedTaskId
         e == IF ~res.ok THEN res.err ELSE IF throws THEN FindTypeError ELSE NoErr
         again == op.kind = "toggleTaskComplete" /\ op.cSel = op.id
         op1 == [op EXCEPT !.pc = "listSubtasks",
                           !.reqs = Append(@, listSubtasks(op.cSel, user = Null))]
     IN /\ tasks' = IF res.ok THEN Normalize(payload) ELSE tasks
        /\ subtasks' = AfterReload(op, subtasks)
        /\ Commit(user, filters, FALSE, sel,
                  [ops EXCEPT ![s] = IF again THEN op1 ELSE Idle],
                  IF e # NoErr THEN ShowErrorMessage(e) ELSE error, FALSE)
        /\ last' = StepList(IF again THEN op1 ELSE op, "getTasks", ~again, e,
                            IF res.ok THEN "tasks" ELSE "none", payload)
  /\ UNCHANGED <<loadingUser, authError, flash, showTaskForm, editingTask, events>>

\* The flash a subtask mutation raises after its reload.
ReloadFlash(op) ==
  CASE op.kind = "addSubtask" -> "Subtask added"
    [] op.kind = "updateSubtask" -> "Subtask updated"
    [] op.kind = "deleteSubtask" -> "Subtask deleted"
    [] OTHER -> NoMsg

\* loadSubtasks resumed when GET /tasks/:id/subtasks settles, then the rest of
\* the handler that awaited it.
ListSubtasksSettle(s, r, payload) ==
  /\ ops[s].kind \in {"loadSubtasks", "toggleTaskComplete"} \cup SubtaskMutations
  /\ ops[s].pc = "listSubtasks"
  /\ LET res == Request(r)
         op == ops[s]
         fl == ReloadFlash(op)
     IN /\ subtasks' = IF res.ok THEN Normalize(payload) ELSE subtasks
        /\ flash' = IF fl # NoMsg THEN fl ELSE flash
        /\ NoEffect([ops EXCEPT ![s] = Idle],
                    IF ~res.ok THEN ShowErrorMessage(res.err) ELSE error, loading)
        /\ last' = StepList([op EXCEPT !.flashed = (@ \/ fl # NoMsg)], "listSubtasks",
                            TRUE, res.err, IF res.ok THEN "subtasks" ELSE "none", payload)
  /\ UNCHANGED <<loadingUser, authError, tasks, showTaskForm, editingTask, events>>

\* ------------------------------------------------------- notifications
\* clearAfter: the setTimeout of a notification fires and clears it.  Here
\* the clock is left out (now, timers and raised stay as Init set them): a
\* notification that is shown has the timer of its latest raise pending, which
\* may fire at any moment; a timer firing on a notification that is already
\* null changes nothing.  The timed actions follow.
TimerFire(k) ==
  /\ IF k = "flash" THEN flash # NoMsg ELSE error # NoMsg
  /\ flash' = IF k = "flash" THEN NoMsg ELSE flash
  /\ NoEffect(ops, IF k = "error" THEN NoMsg ELSE error, loading)
  /\ last' = NoStep
  /\ UNCHANGED <<loadingUser, authError, tasks, subtasks, showTaskForm, editingTask, events>>

\* showError, showFlash and clearAfter with the clock.  A timer is the
\* callback setTimeout holds: the kind of notification it sets to null and the
\* time it is due.
ErrorMs == 4000
FlashMs == 2500
Timer(k, due) == [kind |-> k, due |-> due]
clearAfter(k, ms) == timers \cup {Timer(k, now + ms)}

Untimed ==
  UNCHANGED <<user, loadingUser, authError, tasks, subtasks, loading, selectedTaskId,
              showTaskForm, editingTask, filters, ops, last, wire>>

showError(e) ==
  /\ events < MaxEvents
  /\ events' = events + 1
  /\ error' = ShowErrorMessage(e)
  /\ timers' = clearAfter("error", ErrorMs)
  /\ raised' = [raised EXCEPT !.error = now]
  /\ UNCHANGED <<flash, now>>
  /\ Untimed

showFlash(msg) ==
  /\ events < MaxEvents
  /\ events' = events + 1
  /\ flash' = msg
  /\ timers' = clearAfter("flash", FlashMs)
  /\ raised' = [raised EXCEPT !.flash = now]
  /\ UNCHANGED <<error, now>>
  /\ Untimed

\* A pending timer is due and its callback runs: setError(null) / setFlash(null).
TimerExpire(t) ==
  /\ t \in timers /\ t.due <= now
  /\ timers' = timers \ {t}
  /\ error' = IF t.kind = "error" THEN NoMsg ELSE error
  /\ flash' = IF t.kind = "flash" THEN NoMsg ELSE flash
  /\ UNCHANGED <<now, raised, events>>
  /\ Untimed

\* Time passes, up to the moment the next timer is due.
Tick ==
  /\ now < MaxTime
  /\ \A t \in timers : t.due > now
  /\ LET next == now + TickMs
     IN now' = IF \E t \in timers : t.due < next
                THEN CHOOSE d \in {t.due : t \in timers} : \A t \in timers : d <= t.due
                ELSE next
  /\ UNCHANGED <<error, flash, timers, raised, events>>
  /\ Untimed

\* ------------------------------------------------------------------ Next
\* What a request may settle with: a failure, or a 2xx response with a body.
Outcome(r, p) == [r |-> r, p |-> p]
MeOutcomes ==
  { Outcome(OkResp, p) : p \in MePayloads } \cup { Outcome(r, NoMe) : r \in SessionFailures }
TaskOutcomes ==
  { Outcome(OkResp, p) : p \in TaskPayloads } \cup { Outcome(r, NoPayload) : r \in FailResponses }
SubtaskOutcomes(t) ==
  { Outcome(OkResp, p) : p \in SubtaskPayloads(t) }
    \cup { Outcome(r, [shape |-> "array", items |-> {}]) : r \in FailResponses }

Next ==
  \/ \E s \in Slots, o \in MeOutcomes : ProbeSettle(s, o.r, o.p)
  \/ handleLogin
  \/ \E s \in Slots, r \in {OkResp} \cup SessionFailures : LoginSettle(s, r)
  \/ \E s \in Slots, o \in MeOutcomes : LoginMeSettle(s, o.r, o.p)
  \/ handleLogout
  \/ \E s \in Slots, r \in Responses : LogoutSettle(s, r)
  \/ onRefresh
  \/ \E patch \in FilterPatches(filters) : updateFilters(patch)
  \/ \E t \in tasks : onSelect(t)
  \/ startCreateTask
  \/ startEditTask
  \/ cancelForm
  \/ saveTask
  \/ \E c \in BOOLEAN : deleteTask(c)
  \/ \E t \in tasks : toggleTaskComplete(t)
  \/ addSubtask
  \/ \E st \in subtasks : updateSubtask(st)
  \/ \E st \in subtasks, c \in BOOLEAN : deleteSubtask(st, c)
  \/ \E st \in subtasks : toggleSubtaskComplete(st)
  \/ \E s \in Slots, r \in Responses : WriteSettle(s, r)
  \/ \E s \in Slots, r \in Responses : FallbackSettle(s, r)
  \/ \E s \in Slots, o \in TaskOutcomes : GetTasksSettle(s, o.r, o.p)
  \/ \E s \in Slots : \E o \in SubtaskOutcomes(ops[s].cSel) : ListSubtasksSettle(s, o.r, o.p)
  \/ \E k \in {"error", "flash"} : TimerFire(k)

Spec == Init /\ [][Next]_vars

\* The runs in which the user only selects tasks in the list and the loads
\* this causes settle.
NextSelect ==
  \/ \E t \in tasks : onSelect(t)
  \/ \E s \in Slots, o \in TaskOutcomes : GetTasksSettle(s, o.r, o.p)
  \/ \E s \in Slots : \E o \in SubtaskOutcomes(ops[s].cSel) : ListSubtasksSettle(s, o.r, o.p)
  \/ TimerFire("error")

SpecSelect == InitSelect /\ [][NextSelect]_vars

\* The runs in which notifications are raised and expire as time passes.
NotifiedErrors == {FetchError, ApiError("Not found", 404, "Not found")}
FlashMessages == {"Task created", "Task deleted"}
NextNotify ==
  \/ \E e \in NotifiedErrors : showError(e)
  \/ \E msg \in FlashMessages : showFlash(msg)
  \/ \E t \in timers : TimerExpire(t)
  \/ Tick

SpecNotify == InitSession /\ [][NextNotify]_vars

\* The runs in which notifications are raised and expire as time passes while
\* the user starts task loads: refresh, a filter change, a click on a task.
NextExpiry ==
  \/ NextNotify
  \/ onRefresh
  \/ \E patch \in FilterPatches(filters) : updateFilters(patch)
  \/ \E t \in tasks : onSelect(t)

SpecExpiry == InitSession /\ [][NextExpiry]_vars

\* ApiClient._request on its own: fetch delivers response r.
Statuses == {200, 204, 302, 400, 401, 404, 500}
WireResponses ==
  { Resp(n, st, pa, m, e) : n \in BOOLEAN, st \in Statuses, pa \in BOOLEAN,
                            m \in {NoMsg, "Not found"}, e \in {NoMsg, "bad_request"} }
Deliver(r) ==
  /\ wire' = <<[resp |-> r, res |-> Request(r)]>>
  /\ UNCHANGED <<user, loadingUser, authError, tasks, subtasks, loading, flash, error,
                 selectedTaskId, showTaskForm, editingTask, filters, ops, last, events,
                 now, timers, raised>>

NextRequest == \E r \in WireResponses : Deliver(r)

SpecRequest == InitSession /\ [][NextRequest]_vars

\* The runs in which the user deletes the selected task and selects tasks.
NextDelete ==
  \/ \E c \in BOOLEAN : deleteTask(c)
  \/ \E t \in tasks : onSelect(t)
  \/ \E s \in Slots, r \in Responses : WriteSettle(s, r)
  \/ \E s \in Slots, o \in TaskOutcomes : GetTasksSettle(s, o.r, o.p)
  \/ \E s \in Slots : \E o \in SubtaskOutcomes(ops[s].cSel) : ListSubtasksSettle(s, o.r, o.p)
  \/ \E k \in {"error", "flash"} : TimerFire(k)

SpecDelete == InitDelete /\ [][NextDelete]_vars

\* The runs about the form: it is open on task 1, the list beside it stays
\* clickable; the form is saved or cancelled and opened again.
NextForm ==
  \/ \E t \in tasks : onSelect(t)
  \/ startCreateTask
  \/ startEditTask
  \/ cancelForm
  \/ saveTask
  \/ \E s \in Slots, r \in Responses : WriteSettle(s, r)
  \/ \E s \in Slots, o \in TaskOutcomes : GetTasksSettle(s, o.r, o.p)
  \/ \E s \in Slots : \E o \in SubtaskOutcomes(ops[s].cSel) : ListSubtasksSettle(s, o.r, o.p)
  \/ \E k \in {"error", "flash"} : TimerFire(k)

SpecForm == InitForm /\ [][NextForm]_vars

\* The filter states the controls of TaskFilters can produce, over a few
\* search texts, sort keys, priorities and day counts.
QuerySorts == {"", "priority"}
QueryPriorities == {"low", "high"}
QueryDays == {Unset, 0, 3}
FilterStates ==
  [search : SearchTexts, sort : QuerySorts, priorities : SUBSET QueryPriorities,
   dueWithinDays : QueryDays]

\* As InitSelect, with any of these filter states set.
InitQuery == \E f \in FilterStates : AtRestWith(f, NoId, {}, MaxOps)

\* The runs in which the user sets filters and refreshes, from any filter
\* state, and the task loads settle.
NextQuery ==
  \/ onRefresh
  \/ \E v \in SearchTexts : updateFilters(Patch(Opt(v), Absent, Absent, Absent))
  \/ \E v \in QuerySorts : updateFilters(Patch(Absent, Opt(v), Absent, Absent))
  \/ \E pr \in QueryPriorities : updateFilters(togglePriority(filters, pr))
  \/ \E v \in DueTyped : updateFilters(handleDueDays(v))
  \/ \E s \in Slots, o \in TaskOutcomes : GetTasksSettle(s, o.r, o.p)
  \/ TimerFire("error")

SpecQuery == InitQuery /\ [][NextQuery]_vars

\* ================================================================ claims
InFlight == { ops[s] : s \in Slots } \ {Idle}
\* The async functions the state tells about: those suspended, and the one
\* that ran in the last step.
Known == InFlight \cup ({last.op} \ {Idle})

IsTaskLoad(r) == r.method = "GET" /\ r.path = "/tasks"
IsSubtaskLoad(r) == r.method = "GET" /\ r.path = "/tasks/:id/subtasks"
IsLoad(r) == IsTaskLoad(r) \/ IsSubtaskLoad(r)
IsWrite(r) == r.method \in {"POST", "PATCH", "DELETE"}
Positions(op, P(_)) == { i \in 1..Len(op.reqs) : P(op.reqs[i]) }
IsPatch(r) == r.method = "PATCH"
Is404(e) == e.api /\ e.status = 404

\* The handler of a mutation ended in the last step, in its catch clause or
\* after its reload.
MutationFailed ==
  last.done /\ last.op.kind \in Mutations /\ last.at \in {"write", "fallback"}
MutationSucceeded ==
  last.done /\ last.op.kind \in Mutations /\ last.at \in {"getTasks", "listSubtasks"}

\* The fallback PATCH of a toggle, if any, is its second request and repeats
\* the target and the boolean of the POST.
FallbackMatches(op) ==
  \A i \in Positions(op, IsPatch) :
    /\ i = 2
    /\ op.reqs[2].path = (IF op.kind = "toggleTaskComplete" THEN "/tasks/:id"
                          ELSE "/tasks/:id/subtasks/:sub")
    /\ op.reqs[2].id = op.reqs[1].id
    /\ op.reqs[2].sub = op.reqs[1].sub
    /\ op.reqs[2].completed = op.reqs[1].completed

\* C1: a toggle whose POST .../complete fails with 404 issues exactly one
\* fallback PATCH to the same task (and subtask) with the same boolean; when
\* the POST fails otherwise, the toggle issues no further request and ends
\* with that error, which its caller shows.
C1_FallbackOnlyOn404 ==
  /\ \A op \in Known : op.kind \in ToggleKinds =>
       /\ op.reqs[1].method = "POST"
       /\ Cardinality(Positions(op, IsPatch)) <= 1
       /\ FallbackMatches(op)
  /\ (last.op.kind \in ToggleKinds /\ last.at = "write" /\ last.err # NoErr) =>
       IF Is404(last.err)
         THEN /\ ~last.done
              /\ last.op \in InFlight
              /\ Len(last.op.reqs) = 2
              /\ Cardinality(Positions(last.op, IsPatch)) = 1
         ELSE /\ last.done
              /\ Len(last.op.reqs) = 1
              /\ error = last.err.message

\* C1 witness: a subtask toggle got 404 and its fallback PATCH is pending.
C1_Witness ==
  /\ last.op.kind = "toggleSubtaskComplete" /\ last.at = "write" /\ Is404(last.err)
  /\ last.op \in InFlight
  /\ last.op.reqs[2] = apiUpdateSubtask(last.op.id, last.op.sub, last.op.completed, FALSE)

\* C2: while nobody is signed in, the task collection and the subtask
\* collection are empty and nothing is selected, whatever responses arrive
\* after the logout.
C2_NothingHeldWhileSignedOut ==
  user = Null => tasks = {} /\ subtasks = {} /\ selectedTaskId = NoId

\* C3: when handleLogout ends, whether POST /auth/logout resolved or not, the
\* user is absent, both collections are empty, nothing is selected, the form
\* is closed and no task is being edited.
C3_LogoutClearsAll ==
  (last.done /\ last.op.kind = "handleLogout") =>
     /\ user = Null
     /\ tasks = {}
     /\ subtasks = {}
     /\ selectedTaskId = NoId
     /\ showTaskForm = FALSE
     /\ editingTask = NoTask

\* C3 witness: a logout whose request failed has ended.
C3_Witness ==
  last.done /\ last.op.kind = "handleLogout" /\ last.err # NoErr /\ last.op.cSel # NoId

\* C4: no request that loads tasks or subtasks is issued while the user is
\* absent.
C4_NoLoadWhileSignedOut ==
  \A op \in Known : \A i \in Positions(op, IsLoad) : ~op.reqs[i].anon

\* The GET /tasks requests that the suspended functions have issued.
TaskLoadsIssued(o) ==
  LET n[s \in 0..MaxOps] ==
        IF s = 0 THEN 0 ELSE n[s - 1] + Cardinality(Positions(o[s], IsTaskLoad))
  IN n[MaxOps]

\* C5: the step in which a task mutation learns that its write resolved
\* issues exactly one GET /tasks, and the step in which that mutation then
\* ends issues none.
C5_OneTaskReload ==
  [][ /\ (last'.op.kind \in TaskMutations /\ last'.at \in {"write", "fallback"}
            /\ last'.op.wrote)
          => TaskLoadsIssued(ops') = TaskLoadsIssued(ops) + 1
      /\ (last'.op.kind \in TaskMutations /\ last'.done /\ last'.at = "getTasks")
          => TaskLoadsIssued(ops') + 1 = TaskLoadsIssued(ops) ]_vars

\* C6: a mutation issues the reload of its collection only after its write
\* (the fallback PATCH included) resolved: a mutation that has a load among
\* its requests has its write resolved, is past the awaits of its writes, and
\* issued every write before every load; the first load of a task mutation is
\* GET /tasks and the loads of a subtask mutation are those of its task.
C6_ReloadAfterWrite ==
  \A op \in Known : op.kind \in Mutations =>
    /\ \A i \in Positions(op, IsLoad) :
         /\ op.wrote
         /\ op.pc \notin {"write", "fallback"}
         /\ \A j \in Positions(op, IsWrite) : j < i
    /\ op.pc \in {"getTasks", "listSubtasks"} => Positions(op, IsLoad) # {}
    /\ \A i \in Positions(op, IsLoad) :
         IF op.kind \in TaskMutations
           THEN (\A j \in Positions(op, IsLoad) : i <= j) => IsTaskLoad(op.reqs[i])
           ELSE IsSubtaskLoad(op.reqs[i]) /\ op.reqs[i].id = op.id

\* C6 witness: a task toggle took the fallback and then issued its reload.
C6_Witness ==
  \E op \in InFlight :
    /\ op.kind = "toggleTaskComplete" /\ op.pc = "getTasks"
    /\ Len(op.reqs) = 3 /\ IsPatch(op.reqs[2]) /\ IsTaskLoad(op.reqs[3])

\* A mutation's request rejected in the last step and no fallback applies.
WriteRejected(l) ==
  /\ l.op.kind \in Mutations
  /\ l.at \in {"write", "fallback"}
  /\ l.err # NoErr
  /\ ~(l.at = "write" /\ l.op.kind \in ToggleKinds /\ Is404(l.err))

\* C7: when the request of a mutation fails, the error notification shows
\* the error's message, the mutation ends without having issued a load, and
\* tasks, subtasks and selection are as before.
C7_FailureAborts ==
  [][ WriteRejected(last') =>
        /\ error' = last'.err.message
        /\ last'.done
        /\ Positions(last'.op, IsLoad) = {}
        /\ tasks' = tasks
        /\ subtasks' = subtasks
        /\ selectedTaskId' = selectedTaskId ]_vars

\* C7 witness: an update of a subtask was rejected with the server's message
\* while tasks and subtasks were held and a task was selected.
C7_Witness ==
  /\ MutationFailed /\ last.op.kind = "updateSubtask"
  /\ last.err.api /\ error = "Not found"
  /\ tasks # {} /\ subtasks # {} /\ selectedTaskId # NoId

\* C8: a mutation that ends after its write resolved has raised a flash.
C8_SuccessFlashes ==
  (MutationSucceeded /\ last.op.wrote) => last.op.flashed

\* C9: when a task load has replaced the collection and the task that was
\* selected is not in it, nothing is selected any more and the subtask
\* collection is empty.
C9_LoadClearsSelection ==
  [][ (last'.loaded = "tasks" /\ selectedTaskId # NoId
         /\ ~(\E t \in tasks' : t.id = selectedTaskId))
        => (selectedTaskId' = NoId /\ subtasks' = {}) ]_vars

\* C10: the subtask collection never holds subtasks of a task other than the
\* selected one.
C10_SubtasksOfSelection ==
  \A st \in subtasks : st.parent = selectedTaskId

\* C11: subtasks are those of the selected task once the loads of two
\* selections have both arrived: when the last pending subtask load resolves
\* while the subtasks of the selected task are held (its own load has
\* arrived), the collection holds subtasks of the selected task afterwards.
C11_LatestSelectionWins ==
  [][ ( /\ last'.op.kind = "loadSubtasks" /\ last'.loaded = "subtasks"
        /\ selectedTaskId # NoId
        /\ subtasks # {} /\ (\A st \in subtasks : st.parent = selectedTaskId)
        /\ \A s \in Slots : ops'[s].pc # "listSubtasks" )
      => \A st \in subtasks' : st.parent = selectedTaskId' ]_vars

\* C12: a notification stays up for its full duration, counted from the
\* moment it was raised: an error notification that is shown is not cleared
\* before 4000 ms, and a flash that is shown not before 2500 ms, have passed
\* since it was last raised.
C12_FullDuration ==
  [][ /\ (error # NoMsg /\ error' = NoMsg) => now' >= raised.error + ErrorMs
      /\ (flash # NoMsg /\ flash' = NoMsg) => now' >= raised.flash + FlashMs ]_vars

\* C13: the startup probe ends with the loading state over, without an error
\* notification and without an auth error, and with a user or none; when its
\* GET /auth/me failed (transport, status, unparseable body) the user is
\* absent and no load has been started.
C13_ProbeSwallowsFailures ==
  (last.op.kind = "probe") =>
     /\ last.done /\ last.at = "me"
     /\ ~loadingUser
     /\ error = NoMsg /\ authError = NoMsg /\ flash = NoMsg
     /\ user \in Users \cup {Null}
     /\ last.err # NoErr => (user = Null /\ InFlight = {} /\ ~loading)

\* C13 witness: the probe got a 2xx response whose body did not parse.
C13_Witness ==
  /\ last.op.kind = "probe" /\ last.err.api /\ last.err.status = 200
  /\ user = Null /\ ~loadingUser

IsLogin(r) == r.method = "POST" /\ r.path = "/auth/login"
IsMe(r) == r.method = "GET" /\ r.path = "/auth/me"

\* C14: handleLogin issues POST /auth/login first and GET /auth/me only once
\* the login has resolved; the step in which the login settles leaves the
\* user as it was, and a login that failed ends there with no probe issued;
\* the step in which the probe resolves sets the user to the one its body
\* names.
C14_ProbeAfterLogin ==
  [][ (last'.op.kind = "handleLogin") =>
        /\ IsLogin(last'.op.reqs[1])
        /\ Positions(last'.op, IsLogin) = {1}
        /\ Positions(last'.op, IsMe) \subseteq {2}
        /\ Len(last'.op.reqs) <= 2
        /\ (last'.at = "login") =>
              /\ user' = user
              /\ IF last'.err = NoErr
                   THEN Positions(last'.op, IsMe) = {2} /\ ~last'.done
                   ELSE Len(last'.op.reqs) = 1 /\ last'.done
        /\ (last'.at = "me" /\ last'.err = NoErr) => user' = last'.me.user ]_vars

\* C14 witness: a login resolved and its probe is pending, the user still
\* absent.
C14_Witness ==
  /\ last.op.kind = "handleLogin" /\ last.at = "login" /\ last.err = NoErr
  /\ last.op \in InFlight /\ IsMe(last.op.reqs[2]) /\ user = Null

\* C15: when handleLogin fails, the user is left as it was, the auth error is
\* "Invalid credentials" if the error is an ApiError of status 401 and the
\* error's message if not, and the step starts no load.
C15_LoginFailure ==
  [][ (last'.op.kind = "handleLogin" /\ last'.err # NoErr) =>
        /\ last'.done
        /\ user' = user
        /\ authError' = (IF last'.err.api /\ last'.err.status = 401
                           THEN "Invalid credentials" ELSE last'.err.message)
        /\ authError' = "Invalid credentials"
             <=> (last'.err.api /\ last'.err.status = 401)
        /\ \A sl \in Slots : ops'[sl] \in {ops[sl], Idle} ]_vars

\* C15 witness: POST /auth/login was answered 401.
C15_Witness ==
  /\ last.op.kind = "handleLogin" /\ last.at = "login"
  /\ last.err.api /\ last.err.status = 401
  /\ authError = "Invalid credentials" /\ user = Null

\* C16: when POST /tasks/:id/complete of a task toggle is answered 404, no
\* error notification is raised and the fallback PATCH is issued; when that
\* PATCH resolves, no error notification is raised either and GET /tasks is
\* issued; when it fails, the error is shown and the toggle ends without a
\* load.
C16_FallbackAbsorbs404 ==
  [][ (last'.op.kind = "toggleTaskComplete") =>
        /\ (last'.at = "write" /\ Is404(last'.err)) =>
              /\ error' = error
              /\ ~last'.done /\ IsPatch(last'.op.reqs[2])
        /\ (last'.at = "fallback" /\ last'.err = NoErr) =>
              /\ error' = NoMsg
              /\ ~last'.done
              /\ Len(last'.op.reqs) = 3 /\ IsTaskLoad(last'.op.reqs[3])
        /\ (last'.at = "fallback" /\ last'.err # NoErr) =>
              /\ error' = last'.err.message
              /\ last'.done
              /\ Positions(last'.op, IsLoad) = {} ]_vars

\* C16 witness: the fallback PATCH of a task toggle resolved, its reload is
\* pending and no error is shown.
C16_Witness ==
  /\ last.op.kind = "toggleTaskComplete" /\ last.at = "fallback" /\ last.err = NoErr
  /\ last.op \in InFlight /\ IsTaskLoad(last.op.reqs[3])
  /\ error = NoMsg

IsDelete(r) == r.method = "DELETE"

\* C17: a DELETE request is issued only in a step whose confirmation dialog
\* was accepted; a step whose dialog was declined issues no request and
\* leaves notifications, tasks, subtasks, selection and form as they were.
C17_DeleteNeedsConfirm ==
  [][ /\ (\E sl \in Slots :
             /\ ops'[sl] # ops[sl] /\ ops'[sl].pc = "write"
             /\ IsDelete(ops'[sl].reqs[1]))
          => last'.at = "accepted"
      /\ (last'.at = "declined") =>
            /\ ops' = ops
            /\ flash' = flash /\ error' = error
            /\ tasks' = tasks /\ subtasks' = subtasks
            /\ selectedTaskId' = selectedTaskId
            /\ showTaskForm' = showTaskForm /\ editingTask' = editingTask ]_vars

\* C17 witness: a deletion was declined while subtasks were held and nothing
\* was pending.
C17_Witness ==
  /\ last.at = "declined" /\ subtasks # {} /\ InFlight = {} /\ events = 1

\* The parts of C18 that do not depend on what the user does meanwhile: a
\* confirmed delete issues DELETE /tasks/:id for the task that was selected;
\* the step in which it resolves clears the selection and issues GET /tasks;
\* the step in which it fails leaves the selection as it was.
DeleteProtocol ==
  /\ last'.op.reqs[1] = apiDeleteTask(last'.op.cSel, FALSE)
  /\ (last'.at = "write" /\ last'.err = NoErr) =>
        /\ selectedTaskId' = NoId
        /\ Len(last'.op.reqs) = 2 /\ IsTaskLoad(last'.op.reqs[2])
  /\ (last'.at = "write" /\ last'.err # NoErr) =>
        /\ selectedTaskId' = selectedTaskId
        /\ last'.done

\* C18 as stated: the delete protocol, and when the delete ends after its
\* reload, nothing is selected and the subtask collection is empty.
C18_DeleteClearsSelection ==
  [][ (last'.op.kind = "deleteTask") =>
        /\ DeleteProtocol
        /\ (last'.done /\ last'.at = "getTasks") =>
              (selectedTaskId' = NoId /\ subtasks' = {}) ]_vars

\* C18 amended: the delete protocol, and when the delete ends after its
\* reload, the subtask collection is empty and the step selects nothing: the
\* selection is none unless a task was selected after the delete resolved.
C18_DeleteClearsUnlessReselected ==
  [][ (last'.op.kind = "deleteTask") =>
        /\ DeleteProtocol
        /\ (last'.done /\ last'.at = "getTasks") =>
              /\ subtasks' = {}
              /\ selectedTaskId' \in {NoId, selectedTaskId} ]_vars

\* C18 witness: a delete of task 1 ended after its reload resolved without
\* task 1; nothing is selected and no subtasks are held.
C18_Witness ==
  /\ last.op.kind = "deleteTask" /\ last.done /\ last.at = "getTasks"
  /\ last.op.id = 1 /\ last.loaded = "tasks" /\ ~(\E t \in tasks : t.id = 1)
  /\ selectedTaskId = NoId /\ subtasks = {}

\* The values query q carries under key k.
Values(q, k) == { kv[2] : kv \in { x \in q : x[1] = k } }

\* C19: the query of every GET /tasks, built from filter state f, has no
\* search, sort, priority or due_within_days parameter when that field of f
\* is empty or unset, has exactly the search text, the sort key and the day
\* count (zero included) when they are set, one priority parameter for each
\* priority of f, and no other parameter.
C19_QueryMatchesFilters ==
  \A op \in Known : \A i \in Positions(op, IsTaskLoad) :
    LET q == op.reqs[i].query
        f == op.cFilters
    IN /\ \A kv \in q : kv[1] \in {"search", "sort", "priority", "due_within_days"}
       /\ Values(q, "search") = (IF f.search = "" THEN {} ELSE {f.search})
       /\ Values(q, "sort") = (IF f.sort = "" THEN {} ELSE {f.sort})
       /\ Values(q, "priority") = f.priorities
       /\ Values(q, "due_within_days") =
            (IF f.dueWithinDays = Unset THEN {} ELSE {ToString(f.dueWithinDays)})

\* C19 witness: a task load was issued with a day count of zero, two
\* priorities, a search text and no sort key.
C19_Witness ==
  \E op \in InFlight :
    /\ op.kind = "loadTasks"
    /\ op.cFilters.dueWithinDays = 0 /\ op.cFilters.sort = ""
    /\ op.reqs[1].query =
         {<<"due_within_days", "0">>, <<"priority", "low">>, <<"priority", "high">>,
          <<"search", "milk">>}

\* C20: whenever a task is being edited, the form is open.
C20_EditingImpliesFormOpen ==
  editingTask # NoTask => showTaskForm

\* C20 witness: the update of the edited task failed; the form is still open
\* on that task.
C20_Witness ==
  /\ MutationFailed /\ last.op.kind = "saveTask" /\ last.op.id # NoId
  /\ editingTask # NoTask /\ editingTask.id = last.op.id /\ showTaskForm

\* C21: a step that clears the selection while the selected task is being
\* edited clears the edit as well.
C21_ClearedSelectionClearsEdit ==
  [][ (selectedTaskId # NoId /\ selectedTaskId' = NoId
         /\ editingTask # NoTask /\ editingTask.id = selectedTaskId)
        => editingTask' = NoTask ]_vars

\* C22: startEditTask runs with a task selected and sets editingTask to it,
\* opening the form; cancelForm and the step in which the write of saveTask
\* resolves close the form and clear editingTask; the step in which the write
\* of saveTask fails leaves both as they were.
C22_FormLifecycle ==
  [][ /\ (last'.at = "startEditTask") =>
            /\ selectedTask # NoTask
            /\ editingTask' = selectedTask /\ showTaskForm'
      /\ (last'.at = "cancelForm") => (~showTaskForm' /\ editingTask' = NoTask)
      /\ (last'.op.kind = "saveTask" /\ last'.at = "write" /\ last'.err = NoErr) =>
            (~showTaskForm' /\ editingTask' = NoTask)
      /\ (last'.op.kind = "saveTask" /\ last'.at = "write" /\ last'.err # NoErr) =>
            (showTaskForm' = showTaskForm /\ editingTask' = editingTask) ]_vars

\* C22 witness: the update of the edited task resolved; the form is closed
\* and nothing is being edited.
C22_Witness ==
  /\ last.op.kind = "saveTask" /\ last.at = "write" /\ last.err = NoErr
  /\ last.op.id # NoId /\ ~showTaskForm /\ editingTask = NoTask

\* C23: _request resolves exactly when the response arrived with a 2xx status
\* and its body parsed.  For a non-2xx status it rejects with an ApiError of
\* that status: with the status message when the body did not parse, and with
\* the body attached and its message, else its error, else the status
\* message, when it did.  For a 2xx status with a body that did not parse it
\* rejects with an ApiError saying so.  A transport failure rejects with an
\* error that is no ApiError.
C23_RequestOutcome ==
  wire # <<>> =>
    LET r == wire[1].resp
        res == wire[1].res
        e == res.err
        ok2xx == r.status \in 200..299
    IN /\ res.ok <=> (r.net /\ ok2xx /\ r.parsed)
       /\ res.ok => e = NoErr
       /\ ~r.net => ~e.api
       /\ (r.net /\ ~ok2xx) => (e.api /\ e.status = r.status)
       /\ (r.net /\ ~ok2xx /\ ~r.parsed) =>
            (e.message = StatusMessage(r.status) /\ e.data = NoMsg)
       /\ (r.net /\ ~ok2xx /\ r.parsed) =>
            /\ e.data = r.message
            /\ e.message = (IF r.message # NoMsg THEN r.message
                             ELSE IF r.error # NoMsg THEN r.error
                             ELSE StatusMessage(r.status))
       /\ (r.net /\ ok2xx /\ ~r.parsed) =>
            /\ e.api /\ e.status = r.status
            /\ e.message = "Failed to parse server response"

\* C23 witness: a 204 whose body did not parse was rejected.
C23_Witness ==
  /\ wire # <<>>
  /\ wire[1].resp.net /\ wire[1].resp.status = 204 /\ ~wire[1].resp.parsed
  /\ ~wire[1].res.ok /\ wire[1].res.err.api

\* C24: an update through the form or a toggle that ended after its write
\* resolved has issued GET /tasks/:id/subtasks if and only if the task it
\* wrote was the selected one when the handler was called.
C24_SubtaskReloadForSelected ==
  ( /\ last.done /\ last.op.kind \in {"saveTask", "toggleTaskComplete"}
    /\ last.op.wrote /\ last.op.id # NoId )
  => (Positions(last.op, IsSubtaskLoad) # {} <=> last.op.id = last.op.cSel)

\* C25: the task collection changes only by being replaced: a step in which a
\* GET /tasks resolved leaves it equal to the tasks of that response, whatever
\* other reloads are still pending and whenever they were issued; the step
\* in which logout ends leaves it empty; every other step leaves it as it was.
C25_TasksReplacedWholesale ==
  [][ IF last'.loaded = "tasks"
        THEN tasks' = last'.list.items
        ELSE \/ tasks' = tasks
             \/ tasks' = {} /\ last'.op.kind = "handleLogout" /\ last'.done ]_vars

\* A GET /tasks resolved with tasks, which are now the collection, while another
\* GET /tasks is still pending.
C25_Witness ==
  /\ last.loaded = "tasks" /\ last.at = "getTasks"
  /\ tasks = last.list.items /\ tasks # {}
  /\ \E op \in InFlight : op.pc = "getTasks"

\* The slots in which the step started a loadTasks of its own (the effect, or
\* the refresh button), suspended on its GET /tasks.
StartedLoads ==
  { s \in Slots : ops'[s] # ops[s] /\ ops'[s].kind = "loadTasks" /\ ops'[s].pc = "getTasks" }

\* Query q says what filter state f says, and nothing else.
Carries(q, f) ==
  /\ \A kv \in q : kv[1] \in {"search", "sort", "priority", "due_within_days"}
  /\ Values(q, "search") = (IF f.search = "" THEN {} ELSE {f.search})
  /\ Values(q, "sort") = (IF f.sort = "" THEN {} ELSE {f.sort})
  /\ Values(q, "priority") = f.priorities
  /\ Values(q, "due_within_days") =
       (IF f.dueWithinDays = Unset THEN {} ELSE {ToString(f.dueWithinDays)})
  /\ f = DefaultFilters => q = {}

\* C26: a step that changes the user or the filter state and ends signed in
\* starts a task load whose only request is a GET /tasks carrying the filter
\* state the step left (no parameter for the default state); a step that ends
\* signed out starts no task load.
C26_LoadOnIdentityOrFilters ==
  [][ /\ (user' # Null /\ (user' # user \/ filters' # filters)) =>
            \E s \in StartedLoads :
              /\ Len(ops'[s].reqs) = 1
              /\ IsTaskLoad(ops'[s].reqs[1])
              /\ Carries(ops'[s].reqs[1].query, filters')
      /\ user' = Null => StartedLoads = {} ]_vars

\* C26 witness: two task loads are pending, one issued with the default filter
\* state and no parameter, one issued after a filter change with the
\* parameters of the current filter state.
C26_Witness ==
  /\ user # Null /\ filters # DefaultFilters
  /\ \E op \in InFlight :
        op.kind = "loadTasks" /\ op.cFilters = DefaultFilters /\ op.reqs[1].query = {}
  /\ \E op \in InFlight :
        op.kind = "loadTasks" /\ op.cFilters = filters /\ op.reqs[1].query # {}

\* The requests the step issued: those an operation that went on appended to
\* the ones it had issued, and all those of an operation the step started.
Issued ==
  UNION { LET a == ops[s]
              b == ops'[s]
              m == Len(a.reqs)
              n == Len(b.reqs)
          IN IF b = a \/ b = Idle THEN {}
             ELSE IF a # Idle /\ b.kind = a.kind /\ n > m /\ SubSeq(b.reqs, 1, m) = a.reqs
                    THEN { b.reqs[i] : i \in (m + 1)..n }
                    ELSE { b.reqs[i] : i \in 1..n } : s \in Slots }
IssuedSubtaskLoads == { r \in Issued : IsSubtaskLoad(r) }

\* C27: a step that changes the selection to task t issues GET
\* /tasks/t/subtasks, and no subtask load of another task; a step in which a
\* subtask load resolved leaves the subtasks of that response as the subtask
\* collection; a step that changes the selection to none issues no subtask
\* load.
C27_SubtaskLoadFollowsSelection ==
  [][ /\ (selectedTaskId' # selectedTaskId /\ selectedTaskId' # NoId) =>
            { r.id : r \in IssuedSubtaskLoads } = {selectedTaskId'}
      /\ last'.loaded = "subtasks" => subtasks' = last'.list.items
      /\ (selectedTaskId' # selectedTaskId /\ selectedTaskId' = NoId) =>
            IssuedSubtaskLoads = {} ]_vars

\* C28: a task load whose response, an array or {items: [...]}, holds the
\* selected task leaves the selection as it was.
C28_LoadKeepsPresentSelection ==
  [][ ( /\ last'.loaded = "tasks" /\ last'.list.shape \in {"array", "items"}
        /\ selectedTaskId # NoId
        /\ \E t \in last'.list.items : t.id = selectedTaskId )
      => selectedTaskId' = selectedTaskId ]_vars

\* The slots in which the step started a saveTask, suspended on its write.
StartedSaves ==
  { s \in Slots : ops'[s] # ops[s] /\ ops'[s].kind = "saveTask" /\ ops'[s].pc = "write" }

\* C29: a save starts with one request: while a task is being edited, a PATCH
\* /tasks/:id to the id of that task, whatever is selected; otherwise a POST
\* /tasks.
C29_SaveTargetsEditedTask ==
  [][ \A s \in StartedSaves :
        LET r == ops'[s].reqs[1]
        IN /\ Len(ops'[s].reqs) = 1
           /\ IF editingTask # NoTask
                THEN r.method = "PATCH" /\ r.path = "/tasks/:id" /\ r.id = editingTask.id
                ELSE r.method = "POST" /\ r.path = "/tasks" ]_vars

\* C29 witness: a save called while task 2 was selected is suspended on PATCH
\* /tasks/1, the task the form was opened on.
C29_Witness ==
  \E op \in InFlight :
    /\ op.kind = "saveTask" /\ op.pc = "write" /\ op.cSel = 2
    /\ op.reqs[1].method = "PATCH" /\ op.reqs[1].id = 1

\* C30: a step that changes the selection and ends signed in starts a task
\* load, a GET /tasks issued with the new selection in its closure, beside the
\* subtask load of the new selection if there is one.
C30_SelectionChangeReloadsTasks ==
  [][ (user' # Null /\ selectedTaskId' # selectedTaskId) =>
        /\ \E s \in StartedLoads :
              /\ ops'[s].cSel = selectedTaskId'
              /\ Len(ops'[s].reqs) = 1 /\ IsTaskLoad(ops'[s].reqs[1])
        /\ selectedTaskId' # NoId =>
              \E r \in IssuedSubtaskLoads : r.id = selectedTaskId' ]_vars

\* C30 witness: a delete of the selected task has ended with the selection
\* cleared, and a task load started with no selection is pending.
C30_Witness ==
  /\ last.op.kind = "deleteTask" /\ last.done /\ ~MutationFailed
  /\ user # Null /\ selectedTaskId = NoId
  /\ \E op \in InFlight :
        op.kind = "loadTasks" /\ op.pc = "getTasks" /\ op.cSel = NoId

\* C31: a step that issues a GET /tasks leaves no error notification shown,
\* and leaves a flash that was shown on the screen.
C31_TaskLoadClearsError ==
  [][ (\E r \in Issued : IsTaskLoad(r)) =>
        /\ error' = NoMsg
        /\ flash # NoMsg => flash' # NoMsg ]_vars

\* C31 witness: a task load is pending and no error is shown, less than 4000 ms
\* after an error was raised: the timer that was to clear it is not yet due.
C31_Witness ==
  /\ error = NoMsg
  /\ \E t \in timers : t.kind = "error" /\ t.due = raised.error + ErrorMs /\ t.due > now
  /\ \E op \in InFlight : op.kind = "loadTasks" /\ op.pc = "getTasks"

====
